---- MODULE Spec2Model ----
(***************************************************************************)
(* street-cred: authenticated encryption of a secrets file                 *)
(* (MessageEncryption), the Ruby-Marshal payload envelope (RubyMarshal),   *)
(* the random source (CipherGeneration) and the create / edit workflow of  *)
(* FileEncryption over a small file system.                                *)
(*                                                                         *)
(* Data representation.  A Rust String / Vec<u8> is a sequence of bytes.   *)
(* Every byte is a tuple whose length tells its kind:                      *)
(*   <<v>>               a concrete byte, v \in 0..255                     *)
(*   <<"q", g>>          four base64 characters that encode the group g    *)
(*                       of 1..3 bytes, at least one of them opaque        *)
(*   <<k, n, i, p>>      byte i of the AES-CTR encryption of byte p under  *)
(*                       key k and nonce n (opaque ciphertext byte)        *)
(*   <<k, n, m, a, j>>   byte j of the GCM tag over the encryption of m    *)
(*                       under key k, nonce n and associated data a        *)
(* The AEAD primitive is ideal: a tag verifies only for the key, nonce,    *)
(* ciphertext and associated data it was computed for.                     *)
(***************************************************************************)
EXTENDS Integers, Sequences, FiniteSets, TLC

(***************************************************************************)
(* Results: Ok(value), Err(message) returned to the caller, Panic(message).*)
(***************************************************************************)
Ok(v) == [tag |-> "Ok", val |-> v, err |-> ""]

Err(e) == [tag |-> "Err", val |-> <<>>, err |-> e]

Panic(e) == [tag |-> "Panic", val |-> <<>>, err |-> e]

IsOk(r) == r.tag = "Ok"

IsErr(r) == r.tag = "Err"

IsPanic(r) == r.tag = "Panic"

(***************************************************************************)
(* Bytes and strings.                                                      *)
(***************************************************************************)
Lit(s) == [i \in 1..Len(s) |-> <<s[i]>>]

IsPlain(b) == Len(b) = 1

IsQuad(b) == Len(b) = 2

IsCtByte(b) == Len(b) = 4

IsTagByte(b) == Len(b) = 5

AllPlain(s) == \A i \in 1..Len(s) : IsPlain(s[i])

Drop(s, n) == SubSeq(s, n + 1, Len(s))

Take(s, n) == SubSeq(s, 1, n)

RECURSIVE ByteLen(_)
ByteLen(s) ==
  IF s = <<>> THEN 0
  ELSE (IF IsQuad(Head(s)) THEN 4 ELSE 1) + ByteLen(Tail(s))

Dash == <<45>>

Delimiter == <<Dash, Dash>>

(***************************************************************************)
(* std::str::from_utf8 / String::from_utf8 / fs::read_to_string: the bytes *)
(* are accepted iff they are well-formed UTF-8.  Base64 characters are     *)
(* ASCII; opaque cipher bytes are not text.                                *)
(***************************************************************************)
IsCont(b) == IsPlain(b) /\ b[1] >= 128 /\ b[1] <= 191

ContRun(s, n) == Len(s) > n /\ \A i \in 2..(n + 1) : IsCont(s[i])

RECURSIVE ValidUtf8(_)
ValidUtf8(s) ==
  IF s = <<>> THEN TRUE
  ELSE LET b == Head(s) IN
    IF IsQuad(b) THEN ValidUtf8(Tail(s))
    ELSE IF ~IsPlain(b) THEN FALSE
    ELSE IF b[1] < 128 THEN ValidUtf8(Tail(s))
    ELSE IF b[1] >= 194 /\ b[1] <= 223
      THEN ContRun(s, 1) /\ ValidUtf8(Drop(s, 2))
    ELSE IF b[1] >= 224 /\ b[1] <= 239
      THEN ContRun(s, 2) /\ ValidUtf8(Drop(s, 3))
    ELSE IF b[1] >= 240 /\ b[1] <= 244
      THEN ContRun(s, 3) /\ ValidUtf8(Drop(s, 4))
    ELSE FALSE

from_utf8(s) == IF ValidUtf8(s) THEN Ok(s) ELSE Err("Utf8Error")

(***************************************************************************)
(* hex::decode and hex::encode.                                            *)
(***************************************************************************)
IsHexChar(b) ==
  /\ IsPlain(b)
  /\ \/ (b[1] >= 48 /\ b[1] <= 57)
     \/ (b[1] >= 97 /\ b[1] <= 102)
     \/ (b[1] >= 65 /\ b[1] <= 70)

HexVal(b) ==
  IF b[1] <= 57 THEN b[1] - 48
  ELSE IF b[1] >= 97 THEN b[1] - 87
  ELSE b[1] - 55

HexChr(v) == IF v < 10 THEN <<48 + v>> ELSE <<87 + v>>

hex_to_bytes(raw_hex) ==
  IF Len(raw_hex) % 2 # 0 THEN Err("OddLength")
  ELSE IF \E i \in 1..Len(raw_hex) : ~IsHexChar(raw_hex[i])
    THEN Err("InvalidHexCharacter")
  ELSE Ok([i \in 1..(Len(raw_hex) \div 2) |->
            <<16 * HexVal(raw_hex[2 * i - 1]) + HexVal(raw_hex[2 * i])>>])

hex_encode(bytes) ==
  [i \in 1..(2 * Len(bytes)) |->
     IF i % 2 = 1 THEN HexChr(bytes[(i + 1) \div 2][1] \div 16)
     ELSE HexChr(bytes[i \div 2][1] % 16)]

(***************************************************************************)
(* base64 general_purpose::STANDARD: alphabet A-Z a-z 0-9 + /, padding     *)
(* written by encode and required, in canonical form, by decode.           *)
(***************************************************************************)
Pad == <<61>>

B64Chr(v) ==
  IF v < 26 THEN <<65 + v>>
  ELSE IF v < 52 THEN <<71 + v>>
  ELSE IF v < 62 THEN <<v - 4>>
  ELSE IF v = 62 THEN <<43>>
  ELSE <<47>>

IsB64Char(b) ==
  /\ IsPlain(b)
  /\ \/ (b[1] >= 65 /\ b[1] <= 90)
     \/ (b[1] >= 97 /\ b[1] <= 122)
     \/ (b[1] >= 48 /\ b[1] <= 57)
     \/ b[1] = 43
     \/ b[1] = 47

B64Val(b) ==
  IF b[1] >= 97 THEN b[1] - 71
  ELSE IF b[1] >= 65 THEN b[1] - 65
  ELSE IF b[1] >= 48 THEN b[1] + 4
  ELSE IF b[1] = 43 THEN 62
  ELSE 63

EncodeGroup(g) ==
  IF ~AllPlain(g) THEN << <<"q", g>> >>
  ELSE LET b1 == g[1][1]
           b2 == IF Len(g) >= 2 THEN g[2][1] ELSE 0
           b3 == IF Len(g) >= 3 THEN g[3][1] ELSE 0
           c1 == B64Chr(b1 \div 4)
           c2 == B64Chr((b1 % 4) * 16 + (b2 \div 16))
           c3 == B64Chr((b2 % 16) * 4 + (b3 \div 64))
           c4 == B64Chr(b3 % 64)
       IN IF Len(g) = 3 THEN <<c1, c2, c3, c4>>
          ELSE IF Len(g) = 2 THEN <<c1, c2, c3, Pad>>
          ELSE <<c1, c2, Pad, Pad>>

RECURSIVE base64_encode(_)
base64_encode(bytes) ==
  IF bytes = <<>> THEN <<>>
  ELSE IF Len(bytes) <= 3 THEN EncodeGroup(bytes)
  ELSE EncodeGroup(Take(bytes, 3)) \o base64_encode(Drop(bytes, 3))

RECURSIVE base64_decode(_)
base64_decode(text) ==
  IF text = <<>> THEN Ok(<<>>)
  ELSE IF IsQuad(Head(text)) THEN
    LET g == Head(text)[2] IN
      IF Len(g) < 3
        THEN IF Len(text) = 1 THEN Ok(g) ELSE Err("InvalidPadding")
      ELSE LET rest == base64_decode(Tail(text)) IN
        IF IsOk(rest) THEN Ok(g \o rest.val) ELSE rest
  ELSE IF Len(text) < 4 \/ ~AllPlain(Take(text, 4)) THEN Err("InvalidLength")
  ELSE IF ~IsB64Char(text[1]) \/ ~IsB64Char(text[2]) THEN Err("InvalidByte")
  ELSE LET v1 == B64Val(text[1])
           v2 == B64Val(text[2])
           o1 == <<v1 * 4 + (v2 \div 16)>>
       IN
    IF text[3] = Pad THEN
      IF text[4] = Pad /\ Len(text) = 4 /\ v2 % 16 = 0
        THEN Ok(<<o1>>) ELSE Err("InvalidPadding")
    ELSE IF ~IsB64Char(text[3]) THEN Err("InvalidByte")
    ELSE LET v3 == B64Val(text[3])
             o2 == <<(v2 % 16) * 16 + (v3 \div 4)>>
         IN
      IF text[4] = Pad THEN
        IF Len(text) = 4 /\ v3 % 4 = 0
          THEN Ok(<<o1, o2>>) ELSE Err("InvalidPadding")
      ELSE IF ~IsB64Char(text[4]) THEN Err("InvalidByte")
      ELSE LET o3 == <<(v3 % 4) * 64 + B64Val(text[4])>>
               rest == base64_decode(Drop(text, 4))
           IN IF IsOk(rest) THEN Ok(<<o1, o2, o3>> \o rest.val) ELSE rest

(***************************************************************************)
(* RubyMarshal: the envelope is 04 08 'I' '"' <len> <body> <1 ivar> ':'    *)
(* <1> 'E' 'T', lengths in Ruby's compact integer form.                    *)
(***************************************************************************)
w_long(n) ==
  IF n = 0 THEN Lit(<<0>>)
  ELSE IF n < 123 THEN Lit(<<n + 5>>)
  ELSE IF n < 256 THEN Lit(<<1, n>>)
  ELSE Lit(<<2, n % 256, n \div 256>>)

NoLong == [ok |-> FALSE, val |-> 0, rest |-> <<>>]

r_long(s) ==
  IF s = <<>> \/ ~IsPlain(Head(s)) THEN NoLong
  ELSE LET c == Head(s)[1] IN
    IF c = 0 THEN [ok |-> TRUE, val |-> 0, rest |-> Tail(s)]
    ELSE IF c >= 5 /\ c < 128 THEN [ok |-> TRUE, val |-> c - 5, rest |-> Tail(s)]
    ELSE IF c = 1 /\ Len(s) >= 2 /\ IsPlain(s[2])
      THEN [ok |-> TRUE, val |-> s[2][1], rest |-> Drop(s, 2)]
    ELSE IF c = 2 /\ Len(s) >= 3 /\ IsPlain(s[2]) /\ IsPlain(s[3])
      THEN [ok |-> TRUE, val |-> s[2][1] + 256 * s[3][1], rest |-> Drop(s, 3)]
    ELSE NoLong

\* number of leading elements of s that make up exactly n bytes, or -1
RECURSIVE ElemsFor(_, _)
ElemsFor(s, n) ==
  IF n = 0 THEN 0
  ELSE IF s = <<>> \/ n < 0 THEN -1
  ELSE LET k == ElemsFor(Tail(s), n - (IF IsQuad(Head(s)) THEN 4 ELSE 1)) IN
    IF k < 0 THEN -1 ELSE k + 1

\* instance variables: n pairs of ':' <len> <name> and a T / F / nil value
RECURSIVE ReadIvars(_, _)
ReadIvars(s, n) ==
  IF n = 0 THEN [ok |-> TRUE, names |-> <<>>]
  ELSE IF s = <<>> \/ Head(s) # <<58>> THEN [ok |-> FALSE, names |-> <<>>]
  ELSE LET l == r_long(Tail(s))
           k == IF l.ok THEN ElemsFor(l.rest, l.val) ELSE -1
       IN
    IF k < 0 \/ Len(l.rest) < k + 1 THEN [ok |-> FALSE, names |-> <<>>]
    ELSE IF l.rest[k + 1] \notin {<<84>>, <<70>>, <<48>>}
      THEN [ok |-> FALSE, names |-> <<>>]
    ELSE LET more == ReadIvars(Drop(l.rest, k + 1), n - 1) IN
      IF more.ok
        THEN [ok |-> TRUE, names |-> <<Take(l.rest, k)>> \o more.names]
        ELSE more

serialize(contents) ==
  Ok(Lit(<<4, 8, 73, 34>>) \o w_long(ByteLen(contents)) \o contents
       \o Lit(<<6, 58, 6, 69, 84>>))

\* deserialize that hands back whatever follows a length it cannot satisfy
deserialize_short_body(contents) ==
  IF Len(contents) < 3 \/ contents[1] # <<4>> \/ contents[2] # <<8>>
    THEN Err("marshal: bad header")
  ELSE IF contents[3] # <<73>> \/ Len(contents) < 4 \/ contents[4] # <<34>>
    THEN Err("deserialization failed")
  ELSE Ok(r_long(Drop(contents, 4)).rest)

deserialize(contents) ==
  IF Len(contents) < 3 \/ contents[1] # <<4>> \/ contents[2] # <<8>>
    THEN Err("marshal: bad header")
  ELSE IF contents[3] # <<73>> \/ Len(contents) < 4 \/ contents[4] # <<34>>
    THEN Err("deserialization failed")
  ELSE LET l == r_long(Drop(contents, 4))
           k == IF l.ok THEN ElemsFor(l.rest, l.val) ELSE -1
       IN
    IF k < 0 THEN Err("marshal: truncated")
    ELSE LET body == Take(l.rest, k)
             c == r_long(Drop(l.rest, k))
             iv == IF c.ok THEN ReadIvars(c.rest, c.val)
                   ELSE [ok |-> FALSE, names |-> <<>>]
         IN
      IF ~iv.ok THEN Err("marshal: truncated")
      ELSE IF iv.names # <<Lit(<<69>>)>> \/ ~ValidUtf8(body)
        THEN Err("deserialization failed")
      ELSE Ok(body)

(***************************************************************************)
(* CipherGeneration: 12 random bytes for a nonce, 16 random bytes hex      *)
(* encoded for a key.  The operating system's generator is a free choice   *)
(* among the byte strings of the right length; the model draws from a      *)
(* bounded set of them.                                                    *)
(***************************************************************************)
IvLen == 12

KeyLen == 16

TagLen == 16

MaxRandom == 2

Fill(n, v) == [i \in 1..n |-> <<v>>]

random_bytes(length) == {Fill(length, v) : v \in 1..MaxRandom}

random_iv == random_bytes(IvLen)

random_key == {hex_encode(k) : k \in random_bytes(KeyLen)}

(***************************************************************************)
(* Aes128Gcm.  GenericArray::from_slice panics unless the slice has the    *)
(* array's length.                                                         *)
(***************************************************************************)
AeadEncrypt(key, iv, msg, aad) ==
  [i \in 1..Len(msg) |-> <<key, iv, i, msg[i]>>]
    \o [j \in 1..TagLen |-> <<key, iv, msg, aad, j>>]

AeadDecrypt(key, iv, ciphertext, aad) ==
  IF Len(ciphertext) < TagLen THEN Err("aead::Error")
  ELSE LET n == Len(ciphertext) - TagLen
           ct == Take(ciphertext, n)
           tg == Drop(ciphertext, n)
       IN
    IF \E i \in 1..n : ~IsCtByte(ct[i]) THEN Err("aead::Error")
    ELSE LET msg == [i \in 1..n |-> ct[i][4]] IN
      IF /\ \A i \in 1..n : ct[i] = <<key, iv, i, msg[i]>>
         /\ \A j \in 1..TagLen : tg[j] = <<key, iv, msg, aad, j>>
        THEN Ok(msg) ELSE Err("aead::Error")

(***************************************************************************)
(* MessageEncryption                                                       *)
(***************************************************************************)
RECURSIVE SplitOn(_, _)
SplitOn(s, acc) ==
  IF s = <<>> THEN <<acc>>
  ELSE IF Len(s) >= 2 /\ Take(s, 2) = Delimiter
    THEN <<acc>> \o SplitOn(Drop(s, 2), <<>>)
  ELSE SplitOn(Tail(s), Append(acc, Head(s)))

\* variant: more than three fields are accepted as well
split_encrypted_contents_three_or_more(contents) ==
  LET parts == SplitOn(contents, <<>>) IN
    IF Len(parts) >= 3 THEN Ok(parts) ELSE Err("Invalid encrypted contents")

split_encrypted_contents(contents) ==
  LET parts == SplitOn(contents, <<>>) IN
    IF Len(parts) = 3 THEN Ok(parts) ELSE Err("Invalid encrypted contents")

\* variant: the associated data is left out of the AEAD payload
MessageEncryption_encrypt_no_aad(message, key, aad, iv) ==
  LET k == hex_to_bytes(key) IN
    IF ~IsOk(k) THEN Err("Encryption not successful")
    ELSE IF Len(k.val) # KeyLen THEN Panic("from_slice: key length")
    ELSE IF Len(iv) # IvLen THEN Panic("from_slice: iv length")
    ELSE LET text == from_utf8(message) IN
      IF ~IsOk(text) THEN text
      ELSE LET serialized_message == serialize(text.val).val
               encrypted == AeadEncrypt(k.val, iv, serialized_message, <<>>)
               ct == Take(encrypted, Len(encrypted) - 16)
               tg == Drop(encrypted, Len(encrypted) - 16)
           IN Ok(base64_encode(ct) \o Delimiter \o base64_encode(iv)
                   \o Delimiter \o base64_encode(tg))

\* variant: the iv is the first field of the result
MessageEncryption_encrypt_iv_first(message, key, aad, iv) ==
  LET k == hex_to_bytes(key) IN
    IF ~IsOk(k) THEN Err("Encryption not successful")
    ELSE IF Len(k.val) # KeyLen THEN Panic("from_slice: key length")
    ELSE IF Len(iv) # IvLen THEN Panic("from_slice: iv length")
    ELSE LET text == from_utf8(message) IN
      IF ~IsOk(text) THEN text
      ELSE LET serialized_message == serialize(text.val).val
               encrypted == AeadEncrypt(k.val, iv, serialized_message, aad)
               ct == Take(encrypted, Len(encrypted) - 16)
               tg == Drop(encrypted, Len(encrypted) - 16)
           IN Ok(base64_encode(iv) \o Delimiter \o base64_encode(ct)
                   \o Delimiter \o base64_encode(tg))

\* encrypt(); iv is the value CipherGeneration::random_iv() returns
MessageEncryption_encrypt(message, key, aad, iv) ==
  LET k == hex_to_bytes(key) IN
    IF ~IsOk(k) THEN Err("Encryption not successful")
    ELSE IF Len(k.val) # KeyLen THEN Panic("from_slice: key length")
    ELSE IF Len(iv) # IvLen THEN Panic("from_slice: iv length")
    ELSE LET text == from_utf8(message) IN
      IF ~IsOk(text) THEN text
      ELSE LET serialized_message == serialize(text.val).val
               encrypted == AeadEncrypt(k.val, iv, serialized_message, aad)
               ct == Take(encrypted, Len(encrypted) - 16)
               tg == Drop(encrypted, Len(encrypted) - 16)
           IN Ok(base64_encode(ct) \o Delimiter \o base64_encode(iv)
                   \o Delimiter \o base64_encode(tg))

\* variant: a field that does not decode gets an error of its own
MessageEncryption_decrypt_decoding_error(message, key, aad, iv, tag) ==
  LET k == hex_to_bytes(key)
      n == base64_decode(iv)
      m == base64_decode(message)
      t == base64_decode(tag)
  IN
    IF ~(IsOk(k) /\ IsOk(n) /\ IsOk(m) /\ IsOk(t))
      THEN Err("Decoding not successful")
    ELSE IF Len(k.val) # KeyLen THEN Panic("from_slice: key length")
    ELSE IF Len(n.val) # IvLen THEN Panic("from_slice: iv length")
    ELSE LET plaintext == AeadDecrypt(k.val, n.val, m.val \o t.val, aad) IN
      IF ~IsOk(plaintext) THEN Err("Decryption not successful")
      ELSE LET content == deserialize(plaintext.val) IN
        IF ~IsOk(content) THEN content ELSE from_utf8(content.val)

MessageEncryption_decrypt(message, key, aad, iv, tag) ==
  LET k == hex_to_bytes(key)
      n == base64_decode(iv)
      m == base64_decode(message)
      t == base64_decode(tag)
  IN
    IF ~(IsOk(k) /\ IsOk(n) /\ IsOk(m) /\ IsOk(t))
      THEN Err("Decryption not successful")
    ELSE IF Len(k.val) # KeyLen THEN Panic("from_slice: key length")
    ELSE IF Len(n.val) # IvLen THEN Panic("from_slice: iv length")
    ELSE LET plaintext == AeadDecrypt(k.val, n.val, m.val \o t.val, aad) IN
      IF ~IsOk(plaintext) THEN Err("Decryption not successful")
      ELSE LET content == deserialize(plaintext.val) IN
        IF ~IsOk(content) THEN content ELSE from_utf8(content.val)

(***************************************************************************)
(* Paths.  A path is a sequence of names below the root, a name is the     *)
(* sequence of its dot-separated parts: master.key is <<"master","key">>.  *)
(***************************************************************************)
Some(v) == [some |-> TRUE, v |-> v]

None == [some |-> FALSE, v |-> <<>>]

DotDot == <<"..">>

MasterKeyName == <<"master", "key">>

CredentialsName == <<"credentials", "yml", "enc">>

SecretsName == <<"secrets", "enc">>

WorkDir == <<<<"work">>>>

TempDir == <<<<"tmp">>>>

Dirs == {<<>>, WorkDir, TempDir}

\* the empty string as a path: one name, and that name empty
EmptyPath == <<<<"">>>>

\* the file a path names once its ".." components are followed; ".." is
\* followed only out of a directory that exists, else the path names nothing
RECURSIVE Resolve(_)
Resolve(path) ==
  IF path = <<>> THEN <<>>
  ELSE LET up == Resolve(Take(path, Len(path) - 1)) IN
    IF path[Len(path)] = DotDot /\ up \in Dirs
      THEN IF up = <<>> THEN <<>> ELSE Take(up, Len(up) - 1)
      ELSE Append(up, path[Len(path)])

is_dir(path) == Resolve(path) \in Dirs

\* Path::parent and Path::file_name are lexical
parent(path) ==
  IF path = <<>> \/ path = EmptyPath THEN None
  ELSE Some(Take(path, Len(path) - 1))

file_name(path) ==
  IF path = <<>> \/ path = EmptyPath \/ path[Len(path)] = DotDot THEN None
  ELSE Some(path[Len(path)])

(***************************************************************************)
(* The file system: fs maps the path of every regular file to its bytes.   *)
(* A file-system call either takes effect or fails; a failing fs::write    *)
(* may have created or truncated the file and written part of the data.    *)
(***************************************************************************)
exists(f, path) == Resolve(path) \in DOMAIN f \/ is_dir(path)

Put(f, path, data) ==
  [q \in DOMAIN f \cup {Resolve(path)} |->
     IF q = Resolve(path) THEN data ELSE f[q]]

Del(f, path) == [q \in DOMAIN f \ {Resolve(path)} |-> f[q]]

CanWrite(f, path) ==
  /\ path # <<>>
  /\ path # EmptyPath
  /\ ~is_dir(path)
  /\ Resolve(path) # <<>>
  /\ Take(Resolve(path), Len(Resolve(path)) - 1) \in Dirs

\* what a failed or interrupted fs::write can leave behind
PartialWrites(f, path, data) ==
  {f} \cup (IF CanWrite(f, path)
              THEN {Put(f, path, Take(data, n)) : n \in {0, Len(data) \div 2}}
              ELSE {})

fs_read_to_string(f, path) ==
  IF Resolve(path) \notin DOMAIN f THEN Err("io: not found")
  ELSE IF ~ValidUtf8(f[Resolve(path)]) THEN Err("io: invalid data")
  ELSE Ok(f[Resolve(path)])

(***************************************************************************)
(* FileEncryption: pure parts.                                             *)
(***************************************************************************)
EMPTY_AAD_STRING == <<>>

template_string == Lit(<<67, 72, 65, 78, 71, 69, 32, 77, 69>>)

FileEncryption_decrypt(f, file_path, key) ==
  LET contents == fs_read_to_string(f, file_path) IN
    IF ~IsOk(contents) THEN contents
    ELSE LET split_contents == split_encrypted_contents(contents.val) IN
      IF ~IsOk(split_contents) THEN split_contents
      ELSE LET r == MessageEncryption_decrypt(split_contents.val[1], key,
                      EMPTY_AAD_STRING, split_contents.val[2],
                      split_contents.val[3])
           IN IF IsErr(r) THEN Err("Invalid encrypted contents in decrypt")
              ELSE r

\* variant: the nonce is the constant of twelve zero bytes, not the drawn one
FileEncryption_encrypt_zero_nonce(contents, key, iv) ==
  MessageEncryption_encrypt(contents, key, EMPTY_AAD_STRING, Fill(IvLen, 0))

FileEncryption_encrypt(contents, key, iv) ==
  MessageEncryption_encrypt(contents, key, EMPTY_AAD_STRING, iv)

\* variant: the process id is left out of the name
temp_file_location_no_pid(file_path, pid) ==
  LET original_filename == file_name(file_path) IN
    IF ~original_filename.some
      THEN Err("Could not generate absolute path for encrypted file")
    ELSE LET final_path == original_filename.v IN
      Ok(Append(TempDir,
           IF final_path[Len(final_path)] = "enc"
             THEN Take(final_path, Len(final_path) - 1)
             ELSE final_path))

\* <temp dir>/<pid>.<file name>, a final extension "enc" removed
temp_file_location(file_path, pid) ==
  LET original_filename == file_name(file_path) IN
    IF ~original_filename.some
      THEN Err("Could not generate absolute path for encrypted file")
    ELSE LET final_path == <<pid>> \o original_filename.v IN
      Ok(Append(TempDir,
           IF final_path[Len(final_path)] = "enc"
             THEN Take(final_path, Len(final_path) - 1)
             ELSE final_path))

\* <<filename, key_path, encrypted_file_path>>
\* variant: in file mode the key file is master.key of the root directory
output_info_for_create_key_at_root(path) ==
  IF is_dir(path)
    THEN Ok(<<CredentialsName, Append(path, MasterKeyName),
              Append(path, CredentialsName)>>)
  ELSE IF ~parent(path).some
    THEN Err("Could not get parent directory for output")
  ELSE IF ~file_name(path).some
    THEN Err("Could not get filename for output")
  ELSE Ok(<<file_name(path).v, <<MasterKeyName>>, path>>)

output_info_for_create(path) ==
  IF is_dir(path)
    THEN Ok(<<CredentialsName, Append(path, MasterKeyName),
              Append(path, CredentialsName)>>)
  ELSE IF ~parent(path).some
    THEN Err("Could not get parent directory for output")
  ELSE IF ~file_name(path).some
    THEN Err("Could not get filename for output")
  ELSE Ok(<<file_name(path).v, Append(parent(path).v, MasterKeyName), path>>)

(***************************************************************************)
(* State.                                                                  *)
(*   fs       the file system                                              *)
(*   pc       where each process stands in its create() or edit() call     *)
(*   self     the FileEncryption a process works on: operation, path, key  *)
(*   loc      the local variables of the running call and its result       *)
(*   hist     per call: the file system when the call began, how often the *)
(*            editor was launched, what it left in the temp file, whether  *)
(*            a system call failed, how the comparison came out, the nonce *)
(*            drawn, and the previous call with its outcome                *)
(*   ops      number of calls started so far                               *)
(*   mx       the MessageEncryption scenario (MsgSpec)                     *)
(***************************************************************************)
VARIABLES fs, pc, self, loc, hist, ops, mx

vars == <<fs, pc, self, loc, hist, ops, mx>>

Procs == {1, 2}

Solo == {1}

\* process::id() of each process
Pid == [p \in Procs |-> IF p = 1 THEN "101" ELSE "102"]

MaxOps == 1

(***************************************************************************)
(* Inputs.                                                                 *)
(***************************************************************************)
LegacyKey == hex_encode(Fill(KeyLen, 9))

OtherKey == hex_encode(Fill(KeyLen, 7))

\* 30 and 34 hex characters decode to 15 and 17 bytes; 15 and 33 are odd
Key30 == Take(LegacyKey, 30)

Key34 == LegacyKey \o Lit(<<48, 48>>)

Key15 == Take(LegacyKey, 15)

Key33 == LegacyKey \o Lit(<<48>>)

KeyNonHex == Lit(<<118>>) \o Take(LegacyKey, 31)

KeyStrings == {LegacyKey, OtherKey, Key30, Key15}

TextA == Lit(<<97>>)

TextB == Lit(<<98, 45, 45, 98>>)

NotUtf8 == Lit(<<255>>)

Wire(key, iv, payload, aad) ==
  LET encrypted == AeadEncrypt(key, iv, payload, aad) IN
    base64_encode(Take(encrypted, Len(encrypted) - TagLen)) \o Delimiter
      \o base64_encode(iv) \o Delimiter
      \o base64_encode(Drop(encrypted, Len(encrypted) - TagLen))

LegacyWire ==
  MessageEncryption_encrypt(TextA, LegacyKey, EMPTY_AAD_STRING,
                            Fill(IvLen, 1)).val

\* authentic under LegacyKey, but the payload is not a Marshal envelope
BadEnvelopeWire ==
  Wire(Fill(KeyLen, 9), Fill(IvLen, 1), TextA, EMPTY_AAD_STRING)

FourA == Lit(<<65, 65, 65, 65>>)

\* three fields of valid base64; the iv field decodes to three bytes
ShortIvContents == FourA \o Delimiter \o FourA \o Delimiter \o FourA

\* contents a ciphertext file can have before the first call
LegacyContents ==
  { LegacyWire,
    BadEnvelopeWire,
    ShortIvContents,
    TextA \o Delimiter \o TextA,
    TextA \o Delimiter \o TextA \o Delimiter \o TextA,
    NotUtf8 }

CredentialsPath == Append(WorkDir, CredentialsName)

SecretsPath == Append(WorkDir, SecretsName)

MasterKeyPath == Append(WorkDir, MasterKeyName)

\* a directory as create() leaves it: the key file and the template under it
InitializedFileSystem ==
  Put(Put(<<>>, MasterKeyPath, LegacyKey), CredentialsPath,
      FileEncryption_encrypt(template_string, LegacyKey, Fill(IvLen, 1)).val)

\* the working directory before the first call: empty, holding a ciphertext
\* file whose key comes from the environment, holding a key file only, or
\* initialized by an earlier create()
InitialFileSystems ==
  {<<>>} \cup {Put(<<>>, CredentialsPath, c) : c \in LegacyContents}
         \cup {Put(<<>>, MasterKeyPath, LegacyKey), InitializedFileSystem}

EditPaths == {CredentialsPath}

\* a directory, a file in it, its key file, a file in a directory that does
\* not exist, ".." out of such a directory, and the empty string
CreateTargets ==
  {WorkDir, SecretsPath, MasterKeyPath, <<<<"nodir">>, SecretsName>>,
   <<<<"nodir">>, DotDot>>, EmptyPath}

\* what the editor can leave in the file it was given
EditorTexts == {<<>>, TextA, TextB, NotUtf8}

NoLocals ==
  [contents |-> <<>>, temp_file_contents |-> <<>>,
   encrypted_contents |-> <<>>, key |-> <<>>, result |-> Ok(<<>>)]

NoPrev == [op |-> "none", path |-> <<>>, ok |-> FALSE]

NoHist ==
  [pre |-> <<>>, editor_runs |-> 0, fault |-> FALSE, diff |-> "none",
   after |-> None, iv |-> <<>>, prev |-> NoPrev, status |-> "none"]

NoSelf == [op |-> "none", path |-> <<>>, key |-> <<>>]

NoMx ==
  [phase |-> "off", message |-> <<>>, key |-> <<>>, aad |-> <<>>,
   wire |-> Ok(<<>>), d_message |-> <<>>, d_iv |-> <<>>, d_tag |-> <<>>,
   d_key |-> <<>>, d_aad |-> <<>>, tampered |-> "none", out |-> Ok(<<>>),
   iv |-> <<>>, round |-> 0, original |-> <<>>, parsed |-> Ok(<<>>)]

Init ==
  /\ fs \in InitialFileSystems
  /\ pc = [p \in Procs |-> "idle"]
  /\ self = [p \in Procs |-> NoSelf]
  /\ loc = [p \in Procs |-> NoLocals]
  /\ hist = [p \in Procs |-> NoHist]
  /\ ops = 0
  /\ mx = NoMx

Terminal == {"idle", "returned", "panicked", "crashed"}

\* the call of process p ends: it returns r to its caller
Return(p, r) ==
  /\ pc' = [pc EXCEPT ![p] = "returned"]
  /\ loc' = [loc EXCEPT ![p].result = r]

\* the call of process p ends in a panic
Abort(p, why) ==
  /\ pc' = [pc EXCEPT ![p] = "panicked"]
  /\ loc' = [loc EXCEPT ![p].result = Panic(why)]

Goto(p, label) == pc' = [pc EXCEPT ![p] = label]

\* a system call of process p fails
Fault(p) == hist' = [hist EXCEPT ![p].fault = TRUE]

\* the history of a call that begins now
Begin(p) ==
  [NoHist EXCEPT
     !.pre = fs,
     !.prev = [op |-> self[p].op, path |-> self[p].path,
               ok |-> pc[p] = "returned" /\ IsOk(loc[p].result)]]

TempPath(p) == temp_file_location(self[p].path, Pid[p])

(***************************************************************************)
(* FileEncryption::edit, one action per step of the workflow.  The key     *)
(* comes from the caller (environment or key file).                        *)
(***************************************************************************)
EditKeys ==
  KeyStrings \cup
    (IF MasterKeyPath \in DOMAIN fs /\ ValidUtf8(fs[MasterKeyPath])
       THEN {fs[MasterKeyPath]} ELSE {})

StartEdit(p) ==
  /\ pc[p] \in Terminal
  /\ ops < MaxOps
  /\ \E path \in EditPaths, key \in EditKeys :
       self' = [self EXCEPT ![p] = [op |-> "edit", path |-> path, key |-> key]]
  /\ pc' = [pc EXCEPT ![p] = "decrypt"]
  /\ loc' = [loc EXCEPT ![p] = NoLocals]
  /\ hist' = [hist EXCEPT ![p] = Begin(p)]
  /\ ops' = ops + 1
  /\ UNCHANGED <<fs, mx>>

\* variant: a failed decrypt is taken for an empty file and edit() goes on
Edit_decrypt_lenient(p) ==
  /\ pc[p] = "decrypt"
  /\ LET r == FileEncryption_decrypt(fs, self[p].path, self[p].key) IN
       /\ loc' = [loc EXCEPT ![p].contents = r.val]
       /\ Goto(p, "stage")
  /\ UNCHANGED <<fs, self, hist, ops, mx>>

\* match self.decrypt() { Ok(contents) => ..., Err(why) => panic!(..) }
Edit_decrypt(p) ==
  /\ pc[p] = "decrypt"
  /\ LET r == FileEncryption_decrypt(fs, self[p].path, self[p].key) IN
       IF IsOk(r)
         THEN /\ loc' = [loc EXCEPT ![p].contents = r.val]
              /\ Goto(p, "stage")
         ELSE Abort(p, "Decryption failed")
  /\ UNCHANGED <<fs, self, hist, ops, mx>>

\* the read of the ciphertext file fails in the operating system
Edit_decrypt_io_error(p) ==
  /\ pc[p] = "decrypt"
  /\ Abort(p, "Decryption failed")
  /\ Fault(p)
  /\ UNCHANGED <<fs, self, ops, mx>>

\* let temp_file_path = self.temp_file_location()?;
\* self.write_file(temp_file_path.clone(), contents.clone())?;
Edit_stage(p) ==
  /\ pc[p] = "stage"
  /\ LET t == TempPath(p) IN
       IF ~IsOk(t) THEN Return(p, t) /\ UNCHANGED fs
       ELSE IF ~CanWrite(fs, t.val)
         THEN Return(p, Err("io: write")) /\ UNCHANGED fs
       ELSE fs' = Put(fs, t.val, loc[p].contents) /\ Goto(p, "editor")
            /\ UNCHANGED loc
  /\ UNCHANGED <<self, hist, ops, mx>>

Edit_stage_io_error(p) ==
  /\ pc[p] = "stage"
  /\ IsOk(TempPath(p))
  /\ fs' \in PartialWrites(fs, TempPath(p).val, loc[p].contents)
  /\ Return(p, Err("io: write"))
  /\ Fault(p)
  /\ UNCHANGED <<self, ops, mx>>

\* what the editor process may do to the file it is given
EditorOutcomes(f, path) ==
  {f, Del(f, path)} \cup {Put(f, path, text) : text \in EditorTexts}

\* Self::launch_editor_for_path(&temp_file_path)?;  the exit status of the
\* editor is not looked at
launch_editor_for_path(p) ==
  /\ pc[p] = "editor"
  /\ LET t == TempPath(p).val IN
       IF Resolve(t) \notin DOMAIN fs
         THEN Return(p, Err("io: canonicalize")) /\ UNCHANGED <<fs, hist>>
         ELSE /\ fs' \in EditorOutcomes(fs, t)
              /\ hist' = [hist EXCEPT
                            ![p].editor_runs = @ + 1,
                            ![p].status = "zero",
                            ![p].after =
                              IF Resolve(t) \in DOMAIN fs'
                                THEN Some(fs'[Resolve(t)]) ELSE None]
              /\ Goto(p, "diff")
              /\ UNCHANGED loc
  /\ UNCHANGED <<self, ops, mx>>

\* .spawn().expect(..) / .wait().expect(..): the process cannot be started
\* or waited for
launch_editor_spawn_error(p) ==
  /\ pc[p] = "editor"
  /\ Resolve(TempPath(p).val) \in DOMAIN fs
  /\ Abort(p, "Error: Failed to run editor")
  /\ Fault(p)
  /\ UNCHANGED <<fs, self, ops, mx>>

\* the shell is started but cannot run $EDITOR (command not found) and exits
\* with a non-zero status: wait() returns Ok(status), which is dropped
launch_editor_not_found(p) ==
  /\ pc[p] = "editor"
  /\ Resolve(TempPath(p).val) \in DOMAIN fs
  /\ hist' = [hist EXCEPT ![p].fault = TRUE,
                          ![p].status = "nonzero",
                          ![p].after = Some(fs[Resolve(TempPath(p).val)])]
  /\ Goto(p, "diff")
  /\ UNCHANGED <<fs, self, loc, ops, mx>>

\* variant: a non-zero exit status of the editor is returned as an error
launch_editor_status_checked(p) ==
  /\ pc[p] = "editor"
  /\ Resolve(TempPath(p).val) \in DOMAIN fs
  /\ fs' \in EditorOutcomes(fs, TempPath(p).val)
  /\ hist' = [hist EXCEPT
                ![p].editor_runs = @ + 1,
                ![p].status = "nonzero",
                ![p].after =
                  IF Resolve(TempPath(p).val) \in DOMAIN fs'
                    THEN Some(fs'[Resolve(TempPath(p).val)]) ELSE None]
  /\ Return(p, Err("Error: Editor returned a non-zero status"))
  /\ UNCHANGED <<self, ops, mx>>

\* the editor runs, does to the file what it does, and exits with a non-zero
\* status: wait() returns Ok(status), which is dropped
launch_editor_nonzero_status(p) ==
  /\ pc[p] = "editor"
  /\ Resolve(TempPath(p).val) \in DOMAIN fs
  /\ fs' \in EditorOutcomes(fs, TempPath(p).val)
  /\ hist' = [hist EXCEPT
                ![p].editor_runs = @ + 1,
                ![p].status = "nonzero",
                ![p].after =
                  IF Resolve(TempPath(p).val) \in DOMAIN fs'
                    THEN Some(fs'[Resolve(TempPath(p).val)]) ELSE None]
  /\ Goto(p, "diff")
  /\ UNCHANGED <<self, loc, ops, mx>>

\* let temp_file_contents = fs::read_to_string(temp_file_path.clone())?;
\* if old_file_contents != temp_file_contents { .. } else { .. }
Edit_diff(p) ==
  /\ pc[p] = "diff"
  /\ LET r == fs_read_to_string(fs, TempPath(p).val) IN
       IF ~IsOk(r) THEN Return(p, r) /\ UNCHANGED hist
       ELSE /\ loc' = [loc EXCEPT ![p].temp_file_contents = r.val]
            /\ IF loc[p].contents # r.val
                 THEN /\ Goto(p, "encrypt")
                      /\ hist' = [hist EXCEPT ![p].diff = "changed"]
                 ELSE /\ Goto(p, "remove")
                      /\ hist' = [hist EXCEPT ![p].diff = "same"]
  /\ UNCHANGED <<fs, self, ops, mx>>

Edit_diff_io_error(p) ==
  /\ pc[p] = "diff"
  /\ Return(p, Err("io: read"))
  /\ Fault(p)
  /\ UNCHANGED <<fs, self, ops, mx>>

\* variant: the plaintext of step 1 is encrypted again, not the edited text
Edit_encrypt_stale(p) ==
  /\ pc[p] = "encrypt"
  /\ \E iv \in random_iv :
       LET r == FileEncryption_encrypt(loc[p].contents, self[p].key, iv)
       IN /\ hist' = [hist EXCEPT ![p].iv = iv]
          /\ IF IsOk(r)
               THEN /\ loc' = [loc EXCEPT ![p].encrypted_contents = r.val]
                    /\ Goto(p, "write")
               ELSE IF IsPanic(r) THEN Abort(p, r.err) ELSE Return(p, r)
  /\ UNCHANGED <<fs, self, ops, mx>>

\* let encrypted_contents = self.encrypt(temp_file_contents.as_bytes())?;
Edit_encrypt(p) ==
  /\ pc[p] = "encrypt"
  /\ \E iv \in random_iv :
       LET r == FileEncryption_encrypt(loc[p].temp_file_contents,
                                       self[p].key, iv)
       IN /\ hist' = [hist EXCEPT ![p].iv = iv]
          /\ IF IsOk(r)
               THEN /\ loc' = [loc EXCEPT ![p].encrypted_contents = r.val]
                    /\ Goto(p, "write")
               ELSE IF IsPanic(r) THEN Abort(p, r.err) ELSE Return(p, r)
  /\ UNCHANGED <<fs, self, ops, mx>>

\* variant: the new ciphertext is written over the permanent file itself
Edit_write_in_place(p) ==
  /\ pc[p] = "write"
  /\ fs' = Put(Put(fs, TempPath(p).val, loc[p].encrypted_contents),
               self[p].path, loc[p].encrypted_contents)
  /\ Goto(p, "rename")
  /\ UNCHANGED <<self, loc, hist, ops, mx>>

\* self.write_file(temp_file_path, encrypted_contents)?;
Edit_write(p) ==
  /\ pc[p] = "write"
  /\ LET t == TempPath(p).val IN
       IF ~CanWrite(fs, t) THEN Return(p, Err("io: write")) /\ UNCHANGED fs
       ELSE fs' = Put(fs, t, loc[p].encrypted_contents) /\ Goto(p, "rename")
            /\ UNCHANGED loc
  /\ UNCHANGED <<self, hist, ops, mx>>

Edit_write_io_error(p) ==
  /\ pc[p] = "write"
  /\ fs' \in PartialWrites(fs, TempPath(p).val, loc[p].encrypted_contents)
  /\ Return(p, Err("io: write"))
  /\ Fault(p)
  /\ UNCHANGED <<self, ops, mx>>

\* fs::rename(temp_file_path, path)?;
replace_file_atomically(p) ==
  /\ pc[p] = "rename"
  /\ LET t == TempPath(p).val IN
       IF Resolve(t) \notin DOMAIN fs \/ is_dir(self[p].path)
         THEN Return(p, Err("io: rename")) /\ UNCHANGED fs
         ELSE /\ fs' = Del(Put(fs, self[p].path, fs[Resolve(t)]), t)
              /\ Return(p, Ok(<<>>))
  /\ UNCHANGED <<self, hist, ops, mx>>

\* variant: the result of the failed rename is dropped, edit() returns Ok
replace_file_error_dropped(p) ==
  /\ pc[p] = "rename"
  /\ Return(p, Ok(<<>>))
  /\ Fault(p)
  /\ UNCHANGED <<fs, self, ops, mx>>

\* the rename is refused, for instance across file systems
replace_file_io_error(p) ==
  /\ pc[p] = "rename"
  /\ Return(p, Err("io: rename"))
  /\ Fault(p)
  /\ UNCHANGED <<fs, self, ops, mx>>

\* variant: the unchanged temp file is left where it is
Edit_remove_skipped(p) ==
  /\ pc[p] = "remove"
  /\ Return(p, Ok(<<>>))
  /\ UNCHANGED <<fs, self, hist, ops, mx>>

\* fs::remove_file(temp_file_path)?;
Edit_remove(p) ==
  /\ pc[p] = "remove"
  /\ LET t == TempPath(p).val IN
       IF Resolve(t) \notin DOMAIN fs
         THEN Return(p, Err("io: remove")) /\ UNCHANGED fs
         ELSE fs' = Del(fs, t) /\ Return(p, Ok(<<>>))
  /\ UNCHANGED <<self, hist, ops, mx>>

Edit_remove_io_error(p) ==
  /\ pc[p] = "remove"
  /\ Return(p, Err("io: remove"))
  /\ Fault(p)
  /\ UNCHANGED <<fs, self, ops, mx>>

(***************************************************************************)
(* FileEncryption::create, one action per step.                            *)
(***************************************************************************)
Info(p) == output_info_for_create(self[p].path)

KeyPath(p) == Info(p).val[2]

EncryptedFilePath(p) == Info(p).val[3]

StartCreate(p) ==
  /\ pc[p] \in Terminal
  /\ ops < MaxOps
  /\ \E path \in CreateTargets :
       self' = [self EXCEPT ![p] = [op |-> "create", path |-> path, key |-> <<>>]]
  /\ pc' = [pc EXCEPT ![p] = "check"]
  /\ loc' = [loc EXCEPT ![p] = NoLocals]
  /\ hist' = [hist EXCEPT ![p] = Begin(p)]
  /\ ops' = ops + 1
  /\ UNCHANGED <<fs, mx>>

\* variant: create() goes on as soon as one of the two files is missing
Create_check_either_missing(p) ==
  /\ pc[p] = "check"
  /\ IF ~IsOk(Info(p)) THEN Return(p, Info(p))
     ELSE IF ~exists(fs, KeyPath(p)) \/ ~exists(fs, EncryptedFilePath(p))
       THEN /\ \E key \in random_key : loc' = [loc EXCEPT ![p].key = key]
            /\ Goto(p, "write_key")
       ELSE Return(p, Err("already initialized"))
  /\ UNCHANGED <<fs, self, hist, ops, mx>>

\* let (filename, key_path, encrypted_file_path) = output_info_for_create(path)?;
\* if !key_path.exists() && !encrypted_file_path.exists() {
\*   let key = CipherGeneration::random_key(); ..
\* } else { return Err(..) }
Create_check(p) ==
  /\ pc[p] = "check"
  /\ IF ~IsOk(Info(p)) THEN Return(p, Info(p))
     ELSE IF ~exists(fs, KeyPath(p)) /\ ~exists(fs, EncryptedFilePath(p))
       THEN /\ \E key \in random_key : loc' = [loc EXCEPT ![p].key = key]
            /\ Goto(p, "write_key")
       ELSE Return(p, Err("already initialized"))
  /\ UNCHANGED <<fs, self, hist, ops, mx>>

\* fs::write(key_path, &key)?;
Create_write_key(p) ==
  /\ pc[p] = "write_key"
  /\ IF ~CanWrite(fs, KeyPath(p))
       THEN Return(p, Err("io: write")) /\ UNCHANGED fs
       ELSE fs' = Put(fs, KeyPath(p), loc[p].key) /\ Goto(p, "encrypt_template")
            /\ UNCHANGED loc
  /\ UNCHANGED <<self, hist, ops, mx>>

Create_write_key_io_error(p) ==
  /\ pc[p] = "write_key"
  /\ fs' \in PartialWrites(fs, KeyPath(p), loc[p].key)
  /\ Return(p, Err("io: write"))
  /\ Fault(p)
  /\ UNCHANGED <<self, ops, mx>>

\* let fc = FileEncryption::new(filename, key);
\* let encrypted_contents = fc.encrypt(template_string.as_bytes())?;
Create_encrypt(p) ==
  /\ pc[p] = "encrypt_template"
  /\ \E iv \in random_iv :
       LET r == FileEncryption_encrypt(template_string, loc[p].key, iv) IN
         /\ hist' = [hist EXCEPT ![p].iv = iv]
         /\ IF IsOk(r)
              THEN /\ loc' = [loc EXCEPT ![p].encrypted_contents = r.val]
                   /\ Goto(p, "write_encrypted")
              ELSE IF IsPanic(r) THEN Abort(p, r.err) ELSE Return(p, r)
  /\ UNCHANGED <<fs, self, ops, mx>>

\* fs::write(encrypted_file_path, encrypted_contents)?;  Ok(())
Create_write_encrypted(p) ==
  /\ pc[p] = "write_encrypted"
  /\ IF ~CanWrite(fs, EncryptedFilePath(p))
       THEN Return(p, Err("io: write")) /\ UNCHANGED fs
       ELSE /\ fs' = Put(fs, EncryptedFilePath(p), loc[p].encrypted_contents)
            /\ Return(p, Ok(<<>>))
  /\ UNCHANGED <<self, hist, ops, mx>>

Create_write_encrypted_io_error(p) ==
  /\ pc[p] = "write_encrypted"
  /\ fs' \in PartialWrites(fs, EncryptedFilePath(p), loc[p].encrypted_contents)
  /\ Return(p, Err("io: write"))
  /\ Fault(p)
  /\ UNCHANGED <<self, ops, mx>>

(***************************************************************************)
(* FileEncryption::decrypt called on its own, as the library offers it.    *)
(***************************************************************************)
StartDecrypt(p) ==
  /\ pc[p] \in Terminal
  /\ ops < MaxOps
  /\ \E path \in EditPaths, key \in EditKeys :
       self' = [self EXCEPT ![p] = [op |-> "decrypt", path |-> path, key |-> key]]
  /\ pc' = [pc EXCEPT ![p] = "call_decrypt"]
  /\ loc' = [loc EXCEPT ![p] = NoLocals]
  /\ hist' = [hist EXCEPT ![p] = Begin(p)]
  /\ ops' = ops + 1
  /\ UNCHANGED <<fs, mx>>

\* self.decrypt(): the plaintext or the error is returned; a panic inside
\* MessageEncryption::decrypt ends the call
Decrypt_call(p) ==
  /\ pc[p] = "call_decrypt"
  /\ LET r == FileEncryption_decrypt(fs, self[p].path, self[p].key) IN
       IF IsPanic(r) THEN Abort(p, r.err) ELSE Return(p, r)
  /\ UNCHANGED <<fs, self, hist, ops, mx>>

\* let contents = self.read_file()?;  the read fails in the operating system
Decrypt_io_error(p) ==
  /\ pc[p] = "call_decrypt"
  /\ Return(p, Err("io: read"))
  /\ Fault(p)
  /\ UNCHANGED <<fs, self, ops, mx>>

(***************************************************************************)
(* The process is killed between two steps, or inside a write, which then  *)
(* leaves what a failed write leaves.  Its local variables are gone.       *)
(***************************************************************************)
Crash(p) ==
  /\ pc[p] \notin Terminal
  /\ pc' = [pc EXCEPT ![p] = "crashed"]
  /\ fs' \in
       CASE pc[p] = "stage" ->
              PartialWrites(fs, TempPath(p).val, loc[p].contents)
         [] pc[p] = "write" ->
              PartialWrites(fs, TempPath(p).val, loc[p].encrypted_contents)
         [] pc[p] = "write_key" ->
              PartialWrites(fs, KeyPath(p), loc[p].key)
         [] pc[p] = "write_encrypted" ->
              PartialWrites(fs, EncryptedFilePath(p), loc[p].encrypted_contents)
         [] OTHER -> {fs}
  /\ loc' = [loc EXCEPT ![p] = NoLocals]
  /\ UNCHANGED <<self, hist, ops, mx>>

Step(p) ==
  \/ StartEdit(p)
  \/ Edit_decrypt(p)
  \/ Edit_decrypt_io_error(p)
  \/ Edit_stage(p)
  \/ Edit_stage_io_error(p)
  \/ launch_editor_for_path(p)
  \/ launch_editor_spawn_error(p)
  \/ launch_editor_not_found(p)
  \/ launch_editor_nonzero_status(p)
  \/ Edit_diff(p)
  \/ Edit_diff_io_error(p)
  \/ Edit_encrypt(p)
  \/ Edit_write(p)
  \/ Edit_write_io_error(p)
  \/ replace_file_atomically(p)
  \/ replace_file_io_error(p)
  \/ Edit_remove(p)
  \/ Edit_remove_io_error(p)
  \/ StartCreate(p)
  \/ Create_check(p)
  \/ Create_write_key(p)
  \/ Create_write_key_io_error(p)
  \/ Create_encrypt(p)
  \/ Create_write_encrypted(p)
  \/ Create_write_encrypted_io_error(p)
  \/ StartDecrypt(p)
  \/ Decrypt_call(p)
  \/ Decrypt_io_error(p)
  \/ Crash(p)

\* one process at a time runs create(), edit() and decrypt() calls
Next == \E p \in Solo : Step(p)

Spec == Init /\ [][Next]_vars

(***************************************************************************)
(* MessageEncryption on its own: a message is encrypted, the three fields  *)
(* of the result, the key or the associated data may be replaced by        *)
(* something else, the fields are decrypted, and a decrypted message may   *)
(* be encrypted again.                                                     *)
(***************************************************************************)
MaxRounds == 2

Utf8Text == Lit(<<195, 169>>)

Messages == {<<>>, TextA, TextB, Utf8Text, template_string, NotUtf8}

MsgKeys == {LegacyKey, OtherKey, Key15, Key30, Key33, Key34, KeyNonHex}

AadStrings == {EMPTY_AAD_STRING, Lit(<<105, 100>>)}

\* "123456789012345" and "pksKcg/so9Pq3UMHjfnVsg=="
BadIvText == Lit(<<49, 50, 51, 52, 53, 54, 55, 56, 57, 48, 49, 50, 51, 52, 53>>)

OtherTagText ==
  Lit(<<112, 107, 115, 75, 99, 103, 47, 115, 111, 57, 80, 113, 51, 85, 77, 72,
        106, 102, 110, 86, 115, 103, 61, 61>>)

\* the fields of the encryption of another message under the same inputs
OtherFields ==
  split_encrypted_contents(
    MessageEncryption_encrypt(IF mx.message = TextA THEN TextB ELSE TextA,
                              mx.key, mx.aad, mx.iv).val).val

Replacements(field) ==
  CASE field = "message" ->
         {mx.d_tag, <<>>, TextA, OtherFields[1], FourA \o Tail(mx.d_message),
          Take(mx.d_message, Len(mx.d_message) - 1)}
    [] field = "iv" ->
         {base64_encode(iv) : iv \in random_iv} \cup
         {mx.d_tag, <<>>, BadIvText, base64_encode(Fill(9, 1)),
          FourA \o Drop(mx.d_iv, 4)}
    [] field = "tag" ->
         {OtherTagText, <<>>, TextA, OtherFields[3], FourA \o Tail(mx.d_tag),
          Take(mx.d_tag, Len(mx.d_tag) - 1)}
    [] field = "key" -> MsgKeys
    [] field = "aad" -> AadStrings

Fields == {"message", "iv", "tag", "key", "aad"}

Current(field) ==
  CASE field = "message" -> mx.d_message
    [] field = "iv" -> mx.d_iv
    [] field = "tag" -> mx.d_tag
    [] field = "key" -> mx.d_key
    [] field = "aad" -> mx.d_aad

MsgInit ==
  /\ fs = <<>>
  /\ pc = [p \in Procs |-> "idle"]
  /\ self = [p \in Procs |-> NoSelf]
  /\ loc = [p \in Procs |-> NoLocals]
  /\ hist = [p \in Procs |-> NoHist]
  /\ ops = 0
  /\ \E message \in Messages, key \in MsgKeys, aad \in AadStrings :
       mx = [NoMx EXCEPT !.phase = "new", !.message = message, !.key = key,
                         !.aad = aad, !.original = message, !.round = 1]

\* let encrypted = MessageEncryption::new(message, key, aad).encrypt();
\* the fields are those of split_encrypted_contents(&encrypted)
Msg_encrypt ==
  /\ mx.phase = "new"
  /\ \E iv \in random_iv :
       LET r == MessageEncryption_encrypt(mx.message, mx.key, mx.aad, iv)
           parts == IF IsOk(r) THEN split_encrypted_contents(r.val)
                    ELSE Err("none")
       IN mx' = [mx EXCEPT
                   !.phase = "encrypted", !.wire = r, !.iv = iv,
                   !.d_message = IF IsOk(parts) THEN parts.val[1] ELSE <<>>,
                   !.d_iv = IF IsOk(parts) THEN parts.val[2] ELSE <<>>,
                   !.d_tag = IF IsOk(parts) THEN parts.val[3] ELSE <<>>,
                   !.d_key = mx.key, !.d_aad = mx.aad]
  /\ UNCHANGED <<fs, pc, self, loc, hist, ops>>

\* one input of the coming decrypt call is not the original one
Msg_tamper ==
  /\ mx.phase = "encrypted"
  /\ IsOk(mx.wire)
  /\ mx.tampered = "none"
  /\ \E field \in Fields :
       \E v \in Replacements(field) \ {Current(field)} :
         mx' = [mx EXCEPT
                  !.tampered = field,
                  !.d_message = IF field = "message" THEN v ELSE @,
                  !.d_iv = IF field = "iv" THEN v ELSE @,
                  !.d_tag = IF field = "tag" THEN v ELSE @,
                  !.d_key = IF field = "key" THEN v ELSE @,
                  !.d_aad = IF field = "aad" THEN v ELSE @]
  /\ UNCHANGED <<fs, pc, self, loc, hist, ops>>

\* MessageEncryption::new(message, key, aad).decrypt(iv, tag)
Msg_decrypt ==
  /\ mx.phase = "encrypted"
  /\ mx' = [mx EXCEPT
              !.phase = "decrypted",
              !.out = MessageEncryption_decrypt(mx.d_message, mx.d_key,
                                                mx.d_aad, mx.d_iv, mx.d_tag)]
  /\ UNCHANGED <<fs, pc, self, loc, hist, ops>>

\* the decrypted message becomes the message of a new MessageEncryption
Msg_again ==
  /\ mx.phase = "decrypted"
  /\ IsOk(mx.out)
  /\ mx.round < MaxRounds
  /\ mx' = [mx EXCEPT !.phase = "new", !.message = mx.out.val,
                      !.round = @ + 1]
  /\ UNCHANGED <<fs, pc, self, loc, hist, ops>>

MsgNext == Msg_encrypt \/ Msg_tamper \/ Msg_decrypt \/ Msg_again

MsgSpec == MsgInit /\ [][MsgNext]_vars

(***************************************************************************)
(* MessageEncryption::split_encrypted_contents on its own: the contents    *)
(* are any string of letters and dashes up to a length, the call stores    *)
(* its result.                                                             *)
(***************************************************************************)
MaxSplitLen == 6

SplitInputs ==
  UNION {[1..n -> {<<97>>, Dash}] : n \in 0..MaxSplitLen}

SplitInit ==
  /\ fs = <<>>
  /\ pc = [p \in Procs |-> "idle"]
  /\ self = [p \in Procs |-> NoSelf]
  /\ loc = [p \in Procs |-> NoLocals]
  /\ hist = [p \in Procs |-> NoHist]
  /\ ops = 0
  /\ \E contents \in SplitInputs :
       mx = [NoMx EXCEPT !.phase = "contents", !.message = contents]

\* MessageEncryption::split_encrypted_contents(contents)
Split_call ==
  /\ mx.phase = "contents"
  /\ mx' = [mx EXCEPT !.phase = "split",
                      !.out = split_encrypted_contents(mx.message)]
  /\ UNCHANGED <<fs, pc, self, loc, hist, ops>>

SplitNext == Split_call

SplitSpec == SplitInit /\ [][SplitNext]_vars

(***************************************************************************)
(* RubyMarshal on its own: a string is serialized and deserialized, then   *)
(* the serialized bytes are damaged (a run of bytes removed, which covers  *)
(* truncation, or one byte replaced) and deserialized again.  deserialize  *)
(* takes a &str, so only damaged inputs that are still UTF-8 are passed.   *)
(***************************************************************************)
MaxBody == 2

MarshalStrings ==
  UNION {[1..n -> {<<97>>, <<98>>}] : n \in 0..MaxBody} \cup {Utf8Text}

\* 01 04 05 06 07 08 '"' '0' ':' 'I' 'T' '['
MarshalBytes ==
  {<<1>>, <<4>>, <<5>>, <<6>>, <<7>>, <<8>>, <<34>>, <<48>>, <<58>>, <<73>>,
   <<84>>, <<91>>}

Damaged(f) ==
  {b \in {Take(f, i) \o Drop(f, j) : i \in 0..Len(f), j \in 0..Len(f)}
          \cup {[f EXCEPT ![i] = c] : i \in 1..Len(f), c \in MarshalBytes} :
     b # f /\ Len(b) <= Len(f) /\ ValidUtf8(b)}

MarshalInit ==
  /\ fs = <<>>
  /\ pc = [p \in Procs |-> "idle"]
  /\ self = [p \in Procs |-> NoSelf]
  /\ loc = [p \in Procs |-> NoLocals]
  /\ hist = [p \in Procs |-> NoHist]
  /\ ops = 0
  /\ \E s \in MarshalStrings :
       mx = [NoMx EXCEPT !.phase = "string", !.message = s]

\* RubyMarshal::serialize(contents)
Marshal_serialize ==
  /\ mx.phase = "string"
  /\ mx' = [mx EXCEPT !.phase = "serialized", !.wire = serialize(mx.message)]
  /\ UNCHANGED <<fs, pc, self, loc, hist, ops>>

\* RubyMarshal::deserialize of what serialize returned
Marshal_deserialize ==
  /\ mx.phase = "serialized"
  /\ IsOk(mx.wire)
  /\ mx' = [mx EXCEPT !.phase = "deserialized",
                      !.out = deserialize(mx.wire.val)]
  /\ UNCHANGED <<fs, pc, self, loc, hist, ops>>

\* the caller's input is some other byte string close to a serialized one
Marshal_damage ==
  /\ mx.phase = "deserialized"
  /\ \E b \in Damaged(mx.wire.val) :
       mx' = [mx EXCEPT !.phase = "damaged", !.d_message = b]
  /\ UNCHANGED <<fs, pc, self, loc, hist, ops>>

\* RubyMarshal::deserialize of the damaged bytes
Marshal_deserialize_damaged ==
  /\ mx.phase = "damaged"
  /\ mx' = [mx EXCEPT !.phase = "parsed",
                      !.parsed = deserialize(mx.d_message)]
  /\ UNCHANGED <<fs, pc, self, loc, hist, ops>>

MarshalNext ==
  \/ Marshal_serialize
  \/ Marshal_deserialize
  \/ Marshal_damage
  \/ Marshal_deserialize_damaged

MarshalSpec == MarshalInit /\ [][MarshalNext]_vars

(***************************************************************************)
(* Two processes, each running one edit() with the key of the files, on    *)
(* the same ciphertext file or on different ones, their steps interleaved  *)
(* in any order.  The two files differ in the extension "enc" only.  A      *)
(* process can be killed at any step, inside a write too; system calls     *)
(* that return an error are left to the one-process specification.         *)
(***************************************************************************)
PlainName == <<"credentials", "yml">>

PlainPath == Append(WorkDir, PlainName)

\* the first process edits credentials.yml.enc, the second that file or the
\* other one
ConcPaths(p) ==
  IF p = 1 THEN {CredentialsPath} ELSE {CredentialsPath, PlainPath}

ConcFileSystem ==
  Put(Put(<<>>, CredentialsPath, LegacyWire), PlainPath, LegacyWire)

ConcInit ==
  /\ fs = ConcFileSystem
  /\ pc = [p \in Procs |-> "idle"]
  /\ self = [p \in Procs |-> NoSelf]
  /\ loc = [p \in Procs |-> NoLocals]
  /\ hist = [p \in Procs |-> NoHist]
  /\ ops = 0
  /\ mx = NoMx

\* FileEncryption::new(path, key).edit() in process p
Conc_StartEdit(p) ==
  /\ pc[p] = "idle"
  /\ \E path \in ConcPaths(p) :
       self' = [self EXCEPT
                  ![p] = [op |-> "edit", path |-> path, key |-> LegacyKey]]
  /\ pc' = [pc EXCEPT ![p] = "decrypt"]
  /\ loc' = [loc EXCEPT ![p] = NoLocals]
  /\ hist' = [hist EXCEPT ![p] = Begin(p)]
  /\ UNCHANGED <<fs, ops, mx>>

ConcStep(p) ==
  \/ Conc_StartEdit(p)
  \/ Edit_decrypt(p)
  \/ Edit_stage(p)
  \/ launch_editor_for_path(p)
  \/ Edit_diff(p)
  \/ Edit_encrypt(p)
  \/ Edit_write(p)
  \/ replace_file_atomically(p)
  \/ Edit_remove(p)
  \/ Crash(p)

ConcNext == \E p \in Procs : ConcStep(p)

ConcSpec == ConcInit /\ [][ConcNext]_vars

(***************************************************************************)
(* Two processes, each running one create() on the same empty directory,   *)
(* their existence checks and writes interleaved in any order.             *)
(***************************************************************************)
RaceInit ==
  /\ fs = <<>>
  /\ pc = [p \in Procs |-> "idle"]
  /\ self = [p \in Procs |-> NoSelf]
  /\ loc = [p \in Procs |-> NoLocals]
  /\ hist = [p \in Procs |-> NoHist]
  /\ ops = 0
  /\ mx = NoMx

\* FileEncryption::create(path) in process p
Race_StartCreate(p) ==
  /\ pc[p] = "idle"
  /\ self' = [self EXCEPT
                ![p] = [op |-> "create", path |-> WorkDir, key |-> <<>>]]
  /\ pc' = [pc EXCEPT ![p] = "check"]
  /\ loc' = [loc EXCEPT ![p] = NoLocals]
  /\ hist' = [hist EXCEPT ![p] = Begin(p)]
  /\ UNCHANGED <<fs, ops, mx>>

RaceStep(p) ==
  \/ Race_StartCreate(p)
  \/ Create_check(p)
  \/ Create_write_key(p)
  \/ Create_encrypt(p)
  \/ Create_write_encrypted(p)
  \/ Crash(p)

RaceNext == \E p \in Procs : RaceStep(p)

RaceSpec == RaceInit /\ [][RaceNext]_vars

(***************************************************************************)
(* The life of a secret file: one process runs create() on an empty        *)
(* working directory and then edit() calls, one after the other, on the    *)
(* ciphertext file with the key it reads from the key file.  mx.message    *)
(* keeps the text that was stored when the running call began.             *)
(***************************************************************************)
MaxEdits == 2

\* a directory, a file in it, and its key file
LifeTargets == {WorkDir, SecretsPath, MasterKeyPath}

\* the ciphertext file and the key file of the create() that began the life
LifeFile == IF self[1].op = "create" THEN EncryptedFilePath(1) ELSE self[1].path

LifeKeyFile ==
  IF self[1].op = "create" THEN KeyPath(1)
  ELSE Append(parent(self[1].path).v, MasterKeyName)

\* the last call was an edit() that stored new text
StoredNewText ==
  /\ self[1].op = "edit"
  /\ pc[1] = "returned"
  /\ IsOk(loc[1].result)
  /\ hist[1].diff = "changed"

LifeInit ==
  /\ fs = <<>>
  /\ pc = [p \in Procs |-> "idle"]
  /\ self = [p \in Procs |-> NoSelf]
  /\ loc = [p \in Procs |-> NoLocals]
  /\ hist = [p \in Procs |-> NoHist]
  /\ ops = 0
  /\ mx = [NoMx EXCEPT !.phase = "life", !.message = template_string]

\* FileEncryption::create(path)
Life_StartCreate(p) ==
  /\ pc[p] = "idle"
  /\ \E path \in LifeTargets :
       self' = [self EXCEPT ![p] = [op |-> "create", path |-> path, key |-> <<>>]]
  /\ pc' = [pc EXCEPT ![p] = "check"]
  /\ loc' = [loc EXCEPT ![p] = NoLocals]
  /\ hist' = [hist EXCEPT ![p] = Begin(p)]
  /\ UNCHANGED <<fs, ops, mx>>

\* retrieve_encryption_key() reads the key file;
\* FileEncryption::new(file_name, key).edit()
Life_StartEdit(p) ==
  /\ pc[p] \in {"returned", "panicked"}
  /\ self[p].op = "create" => pc[p] = "returned" /\ IsOk(loc[p].result)
  /\ ops < MaxEdits
  /\ IsOk(fs_read_to_string(fs, LifeKeyFile))
  /\ self' = [self EXCEPT
                ![p] = [op |-> "edit", path |-> LifeFile,
                        key |-> fs_read_to_string(fs, LifeKeyFile).val]]
  /\ pc' = [pc EXCEPT ![p] = "decrypt"]
  /\ loc' = [loc EXCEPT ![p] = NoLocals]
  /\ hist' = [hist EXCEPT ![p] = Begin(p)]
  /\ ops' = ops + 1
  /\ mx' = [mx EXCEPT
              !.message = IF StoredNewText THEN loc[p].temp_file_contents
                          ELSE @]
  /\ UNCHANGED fs

LifeStep(p) ==
  \/ Life_StartCreate(p)
  \/ Create_check(p)
  \/ Create_write_key(p)
  \/ Create_encrypt(p)
  \/ Create_write_encrypted(p)
  \/ Life_StartEdit(p)
  \/ Edit_decrypt(p)
  \/ Edit_stage(p)
  \/ launch_editor_for_path(p)
  \/ Edit_diff(p)
  \/ Edit_diff_io_error(p)
  \/ Edit_encrypt(p)
  \/ Edit_write(p)
  \/ Edit_write_io_error(p)
  \/ replace_file_atomically(p)
  \/ replace_file_io_error(p)
  \/ Edit_remove(p)

LifeNext == \E p \in Solo : LifeStep(p)

LifeSpec == LifeInit /\ [][LifeNext]_vars

(***************************************************************************)
(* Properties.                                                             *)
(***************************************************************************)
FileAt(f, path) ==
  IF Resolve(path) \in DOMAIN f THEN Some(f[Resolve(path)]) ELSE None

Editing(p) == self[p].op = "edit"

Creating(p) == self[p].op = "create"

\* the bytes at the permanent path are those before the call, or the new
\* wire message in full
PermanentIsOldOrNew(p) ==
  \/ FileAt(fs, self[p].path) = FileAt(hist[p].pre, self[p].path)
  \/ /\ FileAt(fs, self[p].path) = Some(loc[p].encrypted_contents)
     /\ FileEncryption_decrypt(fs, self[p].path, self[p].key)
          = Ok(loc[p].temp_file_contents)

\* a step that changes the permanent path is the rename of the temp file
OnlyRenameWrites(p) ==
  (Editing(p) /\ pc[p] \notin Terminal
     /\ FileAt(fs', self[p].path) # FileAt(fs, self[p].path))
  => /\ pc[p] = "rename"
     /\ pc'[p] = "returned"
     /\ IsOk(loc'[p].result)
     /\ FileAt(fs, TempPath(p).val) = Some(loc[p].encrypted_contents)
     /\ FileAt(fs', self[p].path) = Some(loc[p].encrypted_contents)

\* C1: during edit(), after every step, failure or crash, the permanent
\* ciphertext path holds its pre-edit bytes or the complete new wire message,
\* and the only step that changes it is the final rename of the temp file.
C1_PermanentPathAtomic ==
  /\ [](\A p \in Procs : Editing(p) => PermanentIsOldOrNew(p))
  /\ [][\A p \in Procs : OnlyRenameWrites(p)]_vars

\* an edit() has renamed a new wire message onto the permanent path
C1_Witness ==
  \E p \in Procs :
    /\ Editing(p) /\ pc[p] = "returned" /\ IsOk(loc[p].result)
    /\ hist[p].diff = "changed"
    /\ FileAt(fs, self[p].path) = Some(loc[p].encrypted_contents)
    /\ FileAt(fs, self[p].path) # FileAt(hist[p].pre, self[p].path)

DecryptFails(p) ==
  ~IsOk(FileEncryption_decrypt(hist[p].pre, self[p].path, self[p].key))

\* C2: when the initial decrypt of edit() fails, edit() panics before the
\* Stage step: the editor is never launched and the file system, permanent
\* file and temp path included, is as it was when edit() began.
C2_DecryptFailureIsFatal ==
  \A p \in Procs :
    (Editing(p) /\ (DecryptFails(p) \/ loc[p].result = Panic("Decryption failed")))
    => /\ pc[p] \in {"decrypt", "panicked", "crashed"}
       /\ pc[p] = "panicked" => loc[p].result = Panic("Decryption failed")
       /\ hist[p].editor_runs = 0
       /\ fs = hist[p].pre

\* edit() has panicked on a ciphertext file that exists and does not decrypt
C2_Witness ==
  \E p \in Procs :
    /\ Editing(p) /\ pc[p] = "panicked" /\ DecryptFails(p)
    /\ FileAt(fs, self[p].path).some
    /\ ~FileAt(fs, TempPath(p).val).some

EditorChangedText(p) ==
  /\ Editing(p) /\ pc[p] # "crashed" /\ ~hist[p].fault
  /\ hist[p].editor_runs = 1
  /\ hist[p].after.some
  /\ hist[p].after.v # loc[p].contents

\* the call is on its way through the steps after the editor, or has
\* returned Ok with the permanent file decrypting to the editor's content
ChangedEditSucceeds(p) ==
  /\ pc[p] \in {"diff", "encrypt", "write", "rename", "returned"}
  /\ pc[p] = "returned" =>
       /\ IsOk(loc[p].result)
       /\ hist[p].diff = "changed"
       /\ FileEncryption_decrypt(fs, self[p].path, self[p].key)
            = Ok(hist[p].after.v)

\* C4 as stated: whenever the editor leaves content that differs from the
\* decrypted plaintext, edit() returns success and the permanent file
\* decrypts, under the same key and empty AAD, to that content.
C4_AnyChangedContent ==
  \A p \in Procs : EditorChangedText(p) => ChangedEditSucceeds(p)

\* C4: when the editor leaves valid UTF-8 content that differs from the
\* decrypted plaintext and no system call fails, edit() returns Ok and the
\* permanent file decrypts, under the same key and empty AAD, to exactly
\* that content.
C4_ChangedEdit ==
  \A p \in Procs :
    (EditorChangedText(p) /\ ValidUtf8(hist[p].after.v))
    => ChangedEditSucceeds(p)

\* an edit() whose editor wrote new text has returned Ok
C4_Witness ==
  \E p \in Procs :
    /\ EditorChangedText(p) /\ ValidUtf8(hist[p].after.v)
    /\ pc[p] = "returned" /\ IsOk(loc[p].result)
    /\ FileAt(fs, self[p].path) # FileAt(hist[p].pre, self[p].path)

KeyValid(key) ==
  IsOk(hex_to_bytes(key)) /\ Len(hex_to_bytes(key).val) = KeyLen

\* the fields of the wire message as split_encrypted_contents returns them
WireFields ==
  IF IsOk(mx.wire) THEN split_encrypted_contents(mx.wire.val)
  ELSE Err("none")

\* C5: for a UTF-8 message, any AAD and a valid 16-byte hex key, encrypt()
\* returns a wire message of three fields, and decrypt() of those fields
\* with the same key and AAD returns exactly the message; the same holds
\* when the decrypted message is encrypted and decrypted again.
C5_RoundTrip ==
  (mx.phase \in {"encrypted", "decrypted"} /\ KeyValid(mx.key)
     /\ ValidUtf8(mx.message))
  => /\ IsOk(mx.wire)
     /\ IsOk(WireFields)
     /\ mx.message = mx.original
     /\ (mx.phase = "decrypted" /\ mx.tampered = "none")
          => mx.out = Ok(mx.message)

\* a message with AAD has come back unchanged from its second round trip
C5_Witness ==
  /\ mx.phase = "decrypted" /\ mx.tampered = "none" /\ mx.round > 1
  /\ mx.aad # EMPTY_AAD_STRING
  /\ mx.message = Utf8Text
  /\ mx.out = Ok(mx.original)

\* C6 as stated: a decrypt call in which one of ciphertext, iv, tag, key or
\* AAD is not the original one returns the error "Decryption not
\* successful" to its caller and no plaintext.
C6_TamperIsRejected ==
  (mx.phase = "decrypted" /\ mx.tampered # "none")
  => mx.out = Err("Decryption not successful")

\* C7 as stated: with a key that is not valid hex or does not decode to 16
\* bytes, encrypt() and decrypt() both return an error value to the caller
\* and produce no ciphertext and no plaintext.
C7_InvalidKeyIsError ==
  /\ (mx.phase \in {"encrypted", "decrypted"} /\ ~KeyValid(mx.key))
       => IsErr(mx.wire)
  /\ (mx.phase = "decrypted" /\ ~KeyValid(mx.d_key)) => IsErr(mx.out)

\* the iv field of the wire message stored at path
IvField(f, path) == split_encrypted_contents(f[Resolve(path)]).val[2]

AlreadyInitialized(p) ==
  /\ IsOk(Info(p))
  /\ \/ exists(hist[p].pre, KeyPath(p))
     \/ exists(hist[p].pre, EncryptedFilePath(p))

\* the call writes nothing and ends, if it returns, with the error
Refused(p) ==
  /\ pc[p] \in {"check", "returned", "crashed"}
  /\ pc[p] = "returned" => loc[p].result = Err("already initialized")
  /\ fs = hist[p].pre

C10_CreateStoresKeyAndTemplate ==
  \A p \in Procs :
    (Creating(p) /\ pc[p] = "returned" /\ IsOk(loc[p].result))
    => /\ loc[p].key \in random_key
       /\ Len(loc[p].key) = 32
       /\ KeyValid(loc[p].key)
       /\ FileAt(fs, KeyPath(p)) = Some(loc[p].key)
       /\ FileEncryption_decrypt(fs, EncryptedFilePath(p), loc[p].key)
            = Ok(template_string)

\* first position of the run of dashes that position i of s lies in
RunStart(s, i) ==
  CHOOSE j \in 1..i :
    /\ \A k \in j..i : s[k] = Dash
    /\ j = 1 \/ s[j - 1] # Dash

\* where split("--") finds its delimiters: scanning from the left, at every
\* second dash of a run of dashes
DelimiterStarts(s) ==
  {i \in 1..(Len(s) - 1) :
     s[i] = Dash /\ s[i + 1] = Dash /\ (i - RunStart(s, i)) % 2 = 0}

\* C11: split_encrypted_contents returns Ok exactly when the contents hold
\* two "--" delimiters, that is three fields, empty ones counted; the three
\* fields are returned in the order of the contents, so joined by "--" they
\* are the contents again; every other number of fields gives the error
\* "Invalid encrypted contents"; the call changes nothing but its result.
C11_SplitThreeFields ==
  mx.phase = "split" =>
    /\ IsOk(mx.out) <=> Cardinality(DelimiterStarts(mx.message)) = 2
    /\ IsOk(mx.out) =>
         /\ Len(mx.out.val) = 3
         /\ mx.out.val[1] \o Delimiter \o mx.out.val[2] \o Delimiter
              \o mx.out.val[3] = mx.message
         /\ \A i \in DelimiterStarts(mx.message) :
              Len(mx.out.val[1]) < i
         /\ Len(mx.out.val[1]) + 1 \in DelimiterStarts(mx.message)
    /\ ~IsOk(mx.out) => mx.out = Err("Invalid encrypted contents")
    /\ fs = <<>>

\* contents of two delimiters and nothing else were split into three empty
\* fields
C11_Witness ==
  /\ mx.phase = "split"
  /\ mx.message = <<Dash, Dash, Dash, Dash>>
  /\ mx.out = Ok(<<<<>>, <<>>, <<>>>>)

\* the iv string is not the base64 of 12 bytes
BadIv(iv) ==
  ~IsOk(base64_decode(iv)) \/ Len(base64_decode(iv).val) # IvLen

\* C12 as stated: decrypt() with an iv string that is not decodable base64,
\* or that decodes to a length other than 12 bytes, returns an error value
\* to its caller and no plaintext.
C12_BadIvIsError ==
  (mx.phase = "decrypted" /\ mx.tampered = "iv" /\ BadIv(mx.d_iv))
  => IsErr(mx.out)

\* edit() has returned with the new wire message still at the temp path:
\* it was written there in full and the rename did not move it
RenameFailed(p) ==
  /\ Editing(p) /\ pc[p] = "returned"
  /\ hist[p].diff = "changed"
  /\ loc[p].encrypted_contents # <<>>
  /\ FileAt(fs, TempPath(p).val) = Some(loc[p].encrypted_contents)

\* C13: when the final rename of edit() fails, edit() returns an error, the
\* permanent file holds the bytes it held before the call, and these
\* decrypt under the key to the plaintext of before the edit.
C13_RenameFailureKeepsOld ==
  \A p \in Procs :
    RenameFailed(p)
    => /\ IsErr(loc[p].result)
       /\ FileAt(fs, self[p].path) = FileAt(hist[p].pre, self[p].path)
       /\ FileEncryption_decrypt(fs, self[p].path, self[p].key)
            = Ok(loc[p].contents)
       /\ FileEncryption_decrypt(hist[p].pre, self[p].path, self[p].key)
            = Ok(loc[p].contents)

\* a rename has failed after an edit that changed the text
C13_Witness ==
  \E p \in Procs :
    /\ RenameFailed(p) /\ hist[p].fault
    /\ loc[p].result = Err("io: rename")
    /\ hist[p].after = Some(TextB)
    /\ FileAt(fs, self[p].path).some

Decrypting(p) == self[p].op = "decrypt"

\* C14 as stated: FileEncryption::decrypt ends in a value returned to its
\* caller, the plaintext or an error: an I/O error when the file is missing
\* or unreadable, the format error when the contents are not three fields,
\* the decryption error for every failure of MessageEncryption::decrypt;
\* in every case no file is modified.
C14_DecryptReturnsValue ==
  \A p \in Procs :
    (Decrypting(p) /\ pc[p] \in {"returned", "panicked"})
    => /\ fs = hist[p].pre
       /\ pc[p] = "returned"
       /\ IsOk(loc[p].result) \/ IsErr(loc[p].result)
       /\ ~IsOk(fs_read_to_string(fs, self[p].path))
            => loc[p].result \in {Err("io: not found"),
                                   Err("io: invalid data"), Err("io: read")}
       /\ (IsOk(fs_read_to_string(fs, self[p].path))
            /\ ~IsOk(split_encrypted_contents(fs[Resolve(self[p].path)]))
            /\ ~hist[p].fault)
            => loc[p].result = Err("Invalid encrypted contents")

\* the directory a file-mode target lies in is there
ParentExists(path) == parent(path).some /\ is_dir(parent(path).v)

\* C15: for a target that is an existing directory create() uses
\* master.key and credentials.yml.enc in it; for any other target the
\* ciphertext file is the target and the key file is master.key in the
\* target's parent.  When create() returns Ok both files are there; when
\* the parent or the file name cannot be determined, or the parent is no
\* existing directory, create() returns an error and writes nothing.
C15_CreateOutputs ==
  \A p \in Procs :
    Creating(p) =>
      /\ is_dir(self[p].path) =>
           /\ IsOk(Info(p))
           /\ KeyPath(p) = Append(self[p].path, MasterKeyName)
           /\ EncryptedFilePath(p) = Append(self[p].path, CredentialsName)
      /\ (~is_dir(self[p].path) /\ IsOk(Info(p))) =>
           /\ EncryptedFilePath(p) = self[p].path
           /\ KeyPath(p) = Append(parent(self[p].path).v, MasterKeyName)
      /\ (pc[p] = "returned" /\ IsOk(loc[p].result)) =>
           /\ Resolve(KeyPath(p)) \in DOMAIN fs
           /\ Resolve(EncryptedFilePath(p)) \in DOMAIN fs
      /\ (~is_dir(self[p].path)
            /\ (~parent(self[p].path).some \/ ~file_name(self[p].path).some
                   \/ ~ParentExists(self[p].path))) =>
           /\ pc[p] \in {"check", "write_key", "returned", "crashed"}
           /\ pc[p] = "returned" => IsErr(loc[p].result)
           /\ fs = hist[p].pre

\* create() on a file in a fresh directory has written that file and
\* master.key beside it
C15_Witness ==
  \E p \in Procs :
    /\ Creating(p) /\ pc[p] = "returned" /\ IsOk(loc[p].result)
    /\ self[p].path = SecretsPath
    /\ DOMAIN fs = {SecretsPath, MasterKeyPath}
    /\ hist[p].pre = <<>>

\* the key of the decrypt call is not hex, or one of its iv, message and tag
\* is not base64
DecodeFails ==
  \/ ~IsOk(hex_to_bytes(mx.d_key))
  \/ ~IsOk(base64_decode(mx.d_iv))
  \/ ~IsOk(base64_decode(mx.d_message))
  \/ ~IsOk(base64_decode(mx.d_tag))

\* what decrypt() returns when the AEAD rejects the tag: a wire message
\* decrypted with another AAD than it was encrypted with
AuthenticationFailure ==
  LET w == split_encrypted_contents(LegacyWire).val IN
    MessageEncryption_decrypt(w[1], LegacyKey, Lit(<<105, 100>>), w[2], w[3])

AfterString(s) ==
  LET l == r_long(s)
      k == IF l.ok THEN ElemsFor(l.rest, l.val) ELSE -1
  IN IF k < 0 THEN [ok |-> FALSE, rest |-> <<>>]
     ELSE [ok |-> TRUE, rest |-> Drop(l.rest, k)]

\* b is a framed single string object: version 4.8, then a string, bare or
\* wrapped in 'I' with a complete list of instance variables after it.
FramedString(b) ==
  /\ Len(b) >= 3
  /\ Take(b, 2) = Lit(<<4, 8>>)
  /\ \/ b[3] = <<34>> /\ AfterString(Drop(b, 3)).ok
     \/ /\ b[3] = <<73>>
        /\ Len(b) >= 4
        /\ b[4] = <<34>>
        /\ AfterString(Drop(b, 4)).ok
        /\ LET c == r_long(AfterString(Drop(b, 4)).rest)
           IN c.ok /\ ReadIvars(c.rest, c.val).ok

OnDifferentFiles(p, q) ==
  /\ p # q
  /\ Editing(p) /\ Editing(q)
  /\ self[p].path # self[q].path

\* <system temp dir>/<process id>.<file name, a trailing .enc removed>
StagingPath(p) ==
  LET name == self[p].path[Len(self[p].path)] IN
    Append(TempDir,
           <<Pid[p]>> \o (IF name[Len(name)] = "enc"
                            THEN Take(name, Len(name) - 1) ELSE name))

\* a step of process p leaves the staged file of process q as it is
LeavesStagedFile(p, q) ==
  (pc'[p] # pc[p] /\ OnDifferentFiles(p, q))
  => FileAt(fs', TempPath(q).val) = FileAt(fs, TempPath(q).val)

OnSameFile ==
  /\ Editing(1) /\ Editing(2)
  /\ self[1].path = self[2].path
  /\ self[1].key = self[2].key

\* process p has renamed its wire message onto the permanent path
Renamed(p) ==
  /\ pc[p] = "returned"
  /\ IsOk(loc[p].result)
  /\ hist[p].diff = "changed"

\* the permanent path holds the original, or all of what one editor left,
\* encrypted under the key
PermanentIsWhole ==
  \/ FileAt(fs, self[1].path) = FileAt(ConcFileSystem, self[1].path)
  \/ \E p \in Procs :
       /\ Renamed(p)
       /\ FileAt(fs, self[p].path) = Some(loc[p].encrypted_contents)
       /\ FileEncryption_decrypt(fs, self[p].path, self[p].key)
            = Ok(loc[p].temp_file_contents)
       /\ hist[p].after = Some(loc[p].temp_file_contents)

\* the rename of p puts p's wire message at the permanent path, and no other
\* step changes what is there
RenameDecides(p) ==
  (pc'[p] # pc[p] /\ OnSameFile)
  => IF pc[p] = "rename" /\ pc'[p] = "returned" /\ IsOk(loc'[p].result)
       THEN FileAt(fs', self[p].path) = Some(loc[p].encrypted_contents)
       ELSE FileAt(fs', self[p].path) = FileAt(fs, self[p].path)

\* C19: two processes in edit() on the same ciphertext path with the same
\* key: in every interleaving the permanent path holds at each moment a
\* complete wire message that decrypts under the key (the original or the
\* full output of one editor), and each rename replaces it by the output of
\* the renaming process, so that the last rename decides what is left.
C19_SamePathLastRenameWins ==
  /\ [](OnSameFile
         => /\ PermanentIsWhole
            /\ IsOk(FileEncryption_decrypt(fs, self[1].path, self[1].key)))
  /\ [][\A p \in Procs : RenameDecides(p)]_vars

\* both processes started from the original, both renamed, and what is left
\* is the output of process 2 and not that of process 1
C19_Witness ==
  /\ OnSameFile
  /\ Renamed(1) /\ Renamed(2)
  /\ FileAt(hist[1].pre, self[1].path) = FileAt(hist[2].pre, self[2].path)
  /\ loc[1].contents = loc[2].contents
  /\ loc[1].temp_file_contents # loc[2].temp_file_contents
  /\ FileAt(fs, self[2].path) = Some(loc[2].encrypted_contents)
  /\ FileAt(fs, self[1].path) # Some(loc[1].encrypted_contents)

\* the initial decrypt of the edit() of p has succeeded
DecryptSucceeded(p) ==
  /\ Editing(p)
  /\ pc[p] \notin {"decrypt", "crashed"}
  /\ loc[p].result # Panic("Decryption failed")

\* (a) nothing changed: the temp file is deleted, the permanent file is as
\* it was before the call
EndedUnchanged(p) ==
  /\ hist[p].diff = "same"
  /\ loc[p].temp_file_contents = loc[p].contents
  /\ FileAt(fs, self[p].path) = FileAt(hist[p].pre, self[p].path)

\* (b) the text changed: the new wire message, written to the temp file, is
\* now at the permanent path
EndedChanged(p) ==
  /\ hist[p].diff = "changed"
  /\ loc[p].temp_file_contents # loc[p].contents
  /\ FileAt(fs, self[p].path) = Some(loc[p].encrypted_contents)

\* C20 as stated: edit() returns Ok only in one of the two terminal states
\* (a) and (b), with no file at the temp path; and every failure after the
\* initial decrypt (temp-file write, editor launch, temp-file read,
\* re-encryption, rename) ends the call with an error returned to the
\* caller.
C20_EditOutcomes ==
  \A p \in Procs :
    (DecryptSucceeded(p) /\ pc[p] \in {"returned", "panicked"})
    => /\ IsOk(loc[p].result)
            => /\ EndedUnchanged(p) \/ EndedChanged(p)
               /\ ~FileAt(fs, TempPath(p).val).some
       /\ hist[p].fault => pc[p] = "returned" /\ IsErr(loc[p].result)

\* the editor of the edit() of p has exited, with status zero or not
EditorExited(p) ==
  /\ Editing(p)
  /\ pc[p] # "crashed"
  /\ hist[p].status \in {"zero", "nonzero"}

\* the step in which the editor exits takes edit() to the Diff step
ExitLeadsToDiff(p) ==
  (pc[p] = "editor" /\ hist'[p].status \in {"zero", "nonzero"})
  => pc'[p] = "diff"

\* past the Diff step the branch taken is the one the content calls for
BranchFollowsContent(p) ==
  /\ pc[p] \in {"encrypt", "write", "rename"}
       => hist[p].diff = "changed" /\ loc[p].temp_file_contents # loc[p].contents
  /\ pc[p] = "remove"
       => hist[p].diff = "same" /\ loc[p].temp_file_contents = loc[p].contents
  /\ hist[p].diff # "none" => hist[p].after = Some(loc[p].temp_file_contents)

Encrypted == mx.phase = "encrypted" /\ mx.tampered = "none" /\ IsOk(mx.wire)

\* what cipher.encrypt returned in that call: ciphertext and tag
AeadOutput ==
  AeadEncrypt(hex_to_bytes(mx.key).val, mx.iv, serialize(mx.message).val,
              mx.aad)

\* C22: every successful encrypt() output holds exactly two "--" separators,
\* so split_encrypted_contents returns its 3 fields; in this order they are
\* the base64 of the AEAD output without its last 16 bytes, the base64 of
\* the 12-byte nonce used, and the base64 of the last 16 bytes of the AEAD
\* output.
C22_WireMessageWellFormed ==
  Encrypted =>
    /\ Cardinality(DelimiterStarts(mx.wire.val)) = 2
    /\ IsOk(WireFields)
    /\ Len(WireFields.val) = 3
    /\ Len(mx.iv) = 12
    /\ WireFields.val[2] = base64_encode(mx.iv)
    /\ base64_decode(WireFields.val[2]) = Ok(mx.iv)
    /\ WireFields.val[3] = base64_encode(Drop(AeadOutput, Len(AeadOutput) - 16))
    /\ base64_decode(WireFields.val[3])
         = Ok(Drop(AeadOutput, Len(AeadOutput) - 16))
    /\ WireFields.val[1] = base64_encode(Take(AeadOutput, Len(AeadOutput) - 16))
    /\ base64_decode(WireFields.val[1])
         = Ok(Take(AeadOutput, Len(AeadOutput) - 16))

\* the wire message of a text that itself holds "--"
C22_Witness ==
  /\ Encrypted
  /\ mx.message = TextB
  /\ mx.aad # EMPTY_AAD_STRING
  /\ Len(WireFields.val) = 3
  /\ WireFields.val[1] # <<>>

\* the edit() of p has ended with a value returned to its caller, and had
\* written the plaintext to the temp path before
ReturnedAfterStage(p) ==
  /\ Editing(p)
  /\ pc[p] = "returned"
  /\ \/ hist[p].status # "none"
     \/ loc[p].result = Err("io: canonicalize")

\* C23 as stated: whenever edit() ends after the Stage step, with success
\* or with a reported error, no file holding the decrypted plaintext is left
\* at the temp path.
C23_PlaintextConfined ==
  \A p \in Procs :
    ReturnedAfterStage(p)
    => FileAt(fs, TempPath(p).val) # Some(loc[p].contents)

\* C24 as stated: when create() on a fresh target returns, with Ok or with
\* an error, the key file and the ciphertext file are both there or both
\* missing, so that a failed create() leaves no lone key file behind.
C24_CreateAllOrNothing ==
  \A p \in Procs :
    (Creating(p) /\ pc[p] = "returned" /\ IsOk(Info(p))
       /\ ~AlreadyInitialized(p))
    => (exists(fs, KeyPath(p)) <=> exists(fs, EncryptedFilePath(p)))

\* both processes have run create() on the same target to its return
BothCreated ==
  /\ Creating(1) /\ Creating(2)
  /\ self[1].path = self[2].path
  /\ pc[1] = "returned" /\ pc[2] = "returned"

\* C25 as stated: of two create() calls racing on the same fresh target at
\* most one returns Ok, and the key file and the ciphertext file left come
\* from the same call: the ciphertext decrypts under the stored key to
\* "CHANGE ME".
C25_CreateRace ==
  BothCreated =>
    /\ ~(IsOk(loc[1].result) /\ IsOk(loc[2].result))
    /\ FileAt(fs, KeyPath(1)).some
    /\ FileEncryption_decrypt(fs, EncryptedFilePath(1), FileAt(fs, KeyPath(1)).v)
         = Ok(template_string)

\* create() has returned Ok, and edit() calls may have followed
Created ==
  \/ Creating(1) /\ pc[1] = "returned" /\ IsOk(loc[1].result)
  \/ Editing(1)

\* C26 as stated: after a successful create() and any sequence of edit()
\* calls by one process, unchanged, changed or ending in an error, the
\* ciphertext file decrypts under the key stored in the key file, to the
\* text stored by the most recent changed edit that succeeded, or to
\* "CHANGE ME" if there has been none.
C26_SecretFollowsEdits ==
  Created =>
    /\ FileAt(fs, LifeKeyFile).some
    /\ FileEncryption_decrypt(fs, LifeFile, FileAt(fs, LifeKeyFile).v)
         = Ok(IF StoredNewText THEN loc[1].temp_file_contents
              ELSE mx.message)

====
